---- MODULE Spec2Model ----
(***************************************************************************)
(* Model of package ar (ar_model.go): the autoregressive predictor.        *)
(*                                                                         *)
(* float64 values are modelled as exact rationals <<n, d>> (d > 0, lowest  *)
(* terms); slices live in a heap of arrays, so that a slice variable holds *)
(* the id of its backing array and two slices alias exactly when their ids *)
(* are equal.  *mat.Dense values are matrices (sequences of rows).         *)
(***************************************************************************)
EXTENDS Integers, Sequences, FiniteSets, TLC

\* ---------------------------------------------------------------- bounds
MaxLen == 3     \* longest historical series
MaxVal == 1     \* data values are drawn from 0..MaxVal
MaxNa == 2      \* AutoregressiveLags are drawn from 0..MaxNa
MaxNb == 1      \* ExternalInputLags are drawn from -1..MaxNb
MaxH == 2       \* horizons (numToPredict) are drawn from 0..MaxH
Limit == 30000  \* largest numerator or denominator of a represented number

Origins == {1}             \* first input (time) value of a historical series
StepSizes == {-1, 0, 2}    \* StepSize values tried

NoErr == "nil"             \* the nil error
NilId == 0                 \* a nil slice (no backing array)
NilMat == <<>>             \* a nil *mat.Dense

\* error values
ErrLags == "lags must be positive integers"
ErrStep == "step size must be a positive number"
ErrNotEnough == "not enough data points for prediction"
ErrPhi == "failed to construct phi matrix"
ErrSingular == "matrix: matrix is singular"
ErrCondition == "matrix singular or near-singular with condition number +Inf"
WrapInversion(e) == "matrix inversion failed: " \o e
WrapTheta(e) == "error calculating theta: " \o e

\* ------------------------------------------------------------ rationals
Abs(x) == IF x < 0 THEN -x ELSE x

RECURSIVE GCD(_, _)
GCD(a, b) == IF b = 0 THEN a ELSE GCD(b, a % b)

\* A number outside the range of the representation: every operation on it
\* yields it again, and no step of the model stores it.
OutOfRange == <<0, 0>>
InRange(a) == a[2] # 0

\* the rational n/d (d # 0) in lowest terms with a positive denominator
Norm(n, d) ==
    LET g == GCD(Abs(n), Abs(d))
        s == IF d < 0 THEN -1 ELSE 1
        r == <<(s * n) \div g, Abs(d) \div g>>
    IN  IF Abs(r[1]) > Limit \/ r[2] > Limit THEN OutOfRange ELSE r

Q(n) == <<n, 1>>
RNeg(a) == <<-a[1], a[2]>>
RAdd(a, b) ==
    IF ~InRange(a) \/ ~InRange(b) THEN OutOfRange
    ELSE LET g == GCD(a[2], b[2])
         IN  IF (a[2] \div g) > Limit \div b[2] THEN OutOfRange
             ELSE Norm(a[1] * (b[2] \div g) + b[1] * (a[2] \div g),
                       (a[2] \div g) * b[2])
RSub(a, b) == RAdd(a, RNeg(b))
RMul(a, b) ==
    IF ~InRange(a) \/ ~InRange(b) THEN OutOfRange
    ELSE LET g == GCD(Abs(a[1]), b[2])
             h == GCD(Abs(b[1]), a[2])
         IN  Norm((a[1] \div g) * (b[1] \div h), (a[2] \div h) * (b[2] \div g))
RDiv(a, b) ==
    IF ~InRange(b) THEN OutOfRange
    ELSE RMul(a, IF b[1] < 0 THEN <<-b[2], -b[1]>> ELSE <<b[2], b[1]>>)

RECURSIVE RSum(_)
RSum(s) == IF s = <<>> THEN Q(0) ELSE RAdd(Head(s), RSum(Tail(s)))

Max(a, b) == IF a > b THEN a ELSE b
Min(a, b) == IF a < b THEN a ELSE b

\* ------------------------------------------------------------- matrices
Rows(A) == Len(A)
Cols(A) == Len(A[1])
Transpose(A) == [c \in 1..Cols(A) |-> [r \in 1..Rows(A) |-> A[r][c]]]
InRangeMat(A) == \A r \in 1..Rows(A) : \A c \in 1..Cols(A) : InRange(A[r][c])
Mul(A, B) ==
    [r \in 1..Rows(A) |->
        [c \in 1..Cols(B) |->
            RSum([k \in 1..Cols(A) |-> RMul(A[r][k], B[k][c])])]]

\* the n x n identity
Identity(n) == [r \in 1..n |-> [c \in 1..n |-> IF r = c THEN Q(1) ELSE Q(0)]]

\* Gauss-Jordan elimination of the n x 2n matrix M from column k on: the
\* reduced matrix, or <<>> when a column has no pivot (M's left half is
\* singular)
RECURSIVE GaussJordan(_, _)
GaussJordan(M, k) ==
    LET n == Len(M)
        cand == {r \in k..n : M[r][k] # Q(0)}
    IN  IF k > n THEN M
        ELSE IF cand = {} THEN <<>>
        ELSE LET p == CHOOSE r \in cand : \A q \in cand : r <= q
                 S == [r \in 1..n |->
                         IF r = k THEN M[p] ELSE IF r = p THEN M[k] ELSE M[r]]
                 rowk == [c \in 1..(2 * n) |-> RDiv(S[k][c], S[k][k])]
                 E == [r \in 1..n |->
                         IF r = k THEN rowk
                         ELSE [c \in 1..(2 * n) |->
                                 RSub(S[r][c], RMul(S[r][k], rowk[c]))]]
             IN  GaussJordan(E, k + 1)

\* mat.Dense.Inverse: the inverse of a square matrix.  An exactly singular
\* argument is reported by gonum as a Condition error (condition number
\* +Inf), which is a different value from the sentinel ErrSingular; the
\* receiver then holds no inverse.
Inverse(A) ==
    LET n == Rows(A)
        I == Identity(n)
        g == GaussJordan([r \in 1..n |-> A[r] \o I[r]], 1)
    IN  IF g = <<>>
        THEN [m |-> A, err |-> ErrCondition]
        ELSE [m |-> [r \in 1..n |-> SubSeq(g[r], n + 1, 2 * n)], err |-> NoErr]

\* ----------------------------------------------------------------- heap
\* make([]T, n): the heap with a fresh zeroed array; its id is Len of it
Make(hp, n) == Append(hp, [k \in 1..n |-> Q(0)])

\* copy(dst, src) on array contents: min(len(dst), len(src)) elements
Copy(dst, src) ==
    [k \in 1..Len(dst) |-> IF k <= Len(src) THEN src[k] ELSE dst[k]]

\* the contents of a [][]float64 as a sequence of its rows' contents
Deref(hp, id) == [k \in 1..Len(hp[id]) |-> hp[hp[id][k]]]

\* ----------------------------------------------------- NewPredictor
\* NewPredictor without the check of StepSize
NewPredictorNoStepCheck(data, params) ==
    IF params.AutoregressiveLags <= 0 \/ params.ExternalInputLags < 0
    THEN [p |-> <<>>, err |-> ErrLags]
    ELSE [p |-> <<[Data |-> data, Params |-> params]>>, err |-> NoErr]

NewPredictor(data, params) ==
    IF params.AutoregressiveLags <= 0 \/ params.ExternalInputLags < 0
    THEN [p |-> <<>>, err |-> ErrLags]
    ELSE IF params.StepSize[1] <= 0
    THEN [p |-> <<>>, err |-> ErrStep]
    ELSE [p |-> <<[Data |-> data, Params |-> params]>>, err |-> NoErr]

\* ----------------------------------------------------- Predict, pieces
\* the lag window taken as the smaller of the two lag counts
MinLag(nna, nnb) == Min(nna, nnb)

\* m := max(na, nb), the lag window of Predict
MaxLag(nna, nnb) == Max(nna, nnb)

\* the data-length check with < for <=
NotEnoughDataStrict(n, mm) == n < mm

\* the data-length check of Predict
NotEnoughData(n, mm) == n <= mm

\* SplitData that zeroes each row of Data after reading it
SplitDataClearing(hp, data) ==
    LET n == Len(hp[data])
        hp1 == Make(hp, n)
        tv == Len(hp1)
        hp2 == Make(hp1, n)
        dv == Len(hp2)
    IN  [heap |-> [k \in 1..Len(hp2) |->
                     IF k = dv THEN [j \in 1..n |-> hp[hp[data][j]][1]]
                     ELSE IF k = tv THEN [j \in 1..n |-> hp[hp[data][j]][2]]
                     ELSE IF k < data THEN <<Q(0), Q(0)>>
                     ELSE hp2[k]],
         timeValues |-> tv, dataValues |-> dv]

\* SplitData that also swaps the two columns of each row of Data in place
SplitDataSwapping(hp, data) ==
    LET n == Len(hp[data])
        hp1 == Make(hp, n)
        tv == Len(hp1)
        hp2 == Make(hp1, n)
        dv == Len(hp2)
    IN  [heap |-> [k \in 1..Len(hp2) |->
                     IF k = dv THEN [j \in 1..n |-> hp[hp[data][j]][1]]
                     ELSE IF k = tv THEN [j \in 1..n |-> hp[hp[data][j]][2]]
                     ELSE IF k < data THEN <<hp[k][2], hp[k][1]>>
                     ELSE hp2[k]],
         timeValues |-> tv, dataValues |-> dv]

\* step 1 of Predict: two fresh slices filled from the rows of Data
SplitData(hp, data) ==
    LET n == Len(hp[data])
        hp1 == Make(hp, n)
        tv == Len(hp1)
        hp2 == Make(hp1, n)
        dv == Len(hp2)
    IN  [heap |-> [hp2 EXCEPT ![dv] = [k \in 1..n |-> hp[hp[data][k]][1]],
                              ![tv] = [k \in 1..n |-> hp[hp[data][k]][2]]],
         timeValues |-> tv, dataValues |-> dv]

\* extendTimeValues returning its argument when there is nothing to add
extendTimeValuesAliasing(hp, tv, n, step) ==
    LET src == hp[tv]
        len == Len(src)
        hp1 == Make(hp, len + n)
        id == Len(hp1)
        copied == Copy(hp1[id], src)
        lastTimeValue == src[len]
    IN  IF n = 0 THEN [heap |-> hp, pl |-> tv]
        ELSE [heap |-> [hp1 EXCEPT ![id] =
                     [k \in 1..(len + n) |->
                        IF k > len
                        THEN RAdd(lastTimeValue, RMul(Q(k - len), step))
                        ELSE copied[k]]],
              pl |-> id]

\* extendTimeValues counting the projected values down from the horizon
extendTimeValuesReversed(hp, tv, n, step) ==
    LET src == hp[tv]
        len == Len(src)
        hp1 == Make(hp, len + n)
        id == Len(hp1)
        copied == Copy(hp1[id], src)
        lastTimeValue == src[len]
    IN  [heap |-> [hp1 EXCEPT ![id] =
                     [k \in 1..(len + n) |->
                        IF k > len
                        THEN RAdd(lastTimeValue, RMul(Q(n - (k - len) + 1), step))
                        ELSE copied[k]]],
         pl |-> id]

\* extendTimeValues with float64(i) for float64(i+1)
extendTimeValuesOffByOne(hp, tv, n, step) ==
    LET src == hp[tv]
        len == Len(src)
        hp1 == Make(hp, len + n)
        id == Len(hp1)
        copied == Copy(hp1[id], src)
        lastTimeValue == src[len]
    IN  [heap |-> [hp1 EXCEPT ![id] =
                     [k \in 1..(len + n) |->
                        IF k > len
                        THEN RAdd(lastTimeValue, RMul(Q(k - len - 1), step))
                        ELSE copied[k]]],
         pl |-> id]

extendTimeValues(hp, tv, n, step) ==
    LET src == hp[tv]
        len == Len(src)
        hp1 == Make(hp, len + n)
        id == Len(hp1)
        copied == Copy(hp1[id], src)
        lastTimeValue == src[len]
    IN  [heap |-> [hp1 EXCEPT ![id] =
                     [k \in 1..(len + n) |->
                        IF k > len
                        THEN RAdd(lastTimeValue, RMul(Q(k - len), step))
                        ELSE copied[k]]],
         pl |-> id]

\* entry of design row i (0-based), column c (1-based)
PhiEntry(Y, P, nna, nnb, mm, i, c) ==
    LET actualIndex == i + mm
        j == IF c <= nna THEN c ELSE c - nna - 1
    IN  IF actualIndex - j >= 0
        THEN (IF c <= nna THEN RNeg(Y[actualIndex - j + 1])
                          ELSE P[actualIndex - j + 1])
        ELSE Q(0)

\* constructPhiMatrix leaving out the rows whose lags reach before the series
constructPhiMatrixSkipping(Y, P, nna, nnb, mm) ==
    LET dim == nna + nnb + 1
        start == Max(mm, Max(nna, nnb))
        numRows == Len(Y) - start
    IN  IF Len(Y) - mm <= 0 THEN NilMat
        ELSE [r \in 1..numRows |->
                [c \in 1..dim |-> PhiEntry(Y, P, nna, nnb, start, r - 1, c)]]

\* constructPhiMatrix with na + nb columns
constructPhiMatrixNarrow(Y, P, nna, nnb, mm) ==
    LET dim == nna + nnb
        numRows == Len(Y) - mm
    IN  IF numRows <= 0 THEN NilMat
        ELSE [r \in 1..numRows |->
                [c \in 1..dim |-> PhiEntry(Y, P, nna, nnb, mm, r - 1, c)]]

constructPhiMatrix(Y, P, nna, nnb, mm) ==
    LET dim == nna + nnb + 1
        numRows == Len(Y) - mm
    IN  IF numRows <= 0 THEN NilMat
        ELSE [r \in 1..numRows |->
                [c \in 1..dim |-> PhiEntry(Y, P, nna, nnb, mm, r - 1, c)]]

\* the first rows entries of dataValues, as a column
YHead(Y, rows) == [r \in 1..rows |-> <<Y[r]>>]

\* the last rows entries of dataValues, as a column
YTail(Y, rows) == [r \in 1..rows |-> <<Y[Len(Y) - rows + r]>>]

\* calculateTheta multiplying by phi' * phi where its inverse belongs
calculateThetaNoInverse(ph, Y) ==
    LET rows == Rows(ph)
        phiT == Transpose(ph)
        phiTphi == Mul(phiT, ph)
        phiTP == Mul(phiT, YTail(Y, rows))
        inv == Inverse(phiTphi)
    IN  IF inv.err # NoErr /\ inv.err # ErrSingular
        THEN [th |-> NilMat, err |-> WrapInversion(inv.err)]
        ELSE [th |-> Mul(phiTphi, phiTP), err |-> inv.err]

calculateTheta(ph, Y) ==
    LET rows == Rows(ph)
        phiT == Transpose(ph)
        phiTphi == Mul(phiT, ph)
        phiTP == Mul(phiT, YTail(Y, rows))
        inv == Inverse(phiTphi)
    IN  IF inv.err # NoErr /\ inv.err # ErrSingular
        THEN [th |-> NilMat, err |-> WrapInversion(inv.err)]
        ELSE [th |-> Mul(inv.m, phiTP), err |-> inv.err]

\* whether Predict gives up after constructPhiMatrix returned ph
PhiMissing(ph) == ph = NilMat

\* the error check that lets every error through
ThetaFatalNever(e) == FALSE

\* the error check with == for the second !=
ThetaFatalInverted(e) == e # NoErr /\ e = ErrSingular

\* whether Predict gives up after calculateTheta returned err
ThetaFatal(e) == e # NoErr /\ e # ErrSingular

\* performPrediction with a buffer as long as dataValues
PredictionInitShort(hp, dv, plId) ==
    LET hp1 == Make(hp, Len(hp[dv]))
        id == Len(hp1)
    IN  [heap |-> [hp1 EXCEPT ![id] = Copy(hp1[id], hp[dv])], yAp |-> id]

\* performPrediction, before the loop: a fresh buffer seeded from dataValues
PredictionInit(hp, dv, plId) ==
    LET hp1 == Make(hp, Len(hp[plId]))
        id == Len(hp1)
    IN  [heap |-> [hp1 EXCEPT ![id] = Copy(hp1[id], hp[dv])], yAp |-> id]

\* the loop starting at position 0
LoopStartAtZero(mm) == 0

\* the loop starting at m
LoopStartAtM(mm) == mm

\* first position the loop computes
LoopStart(mm) == mm + 1

\* the loop body adding the autoregressive terms where it subtracts them
PredictionSumAdding(y, p, t, ii, nna, nnb) ==
    LET ar == [j \in 1..nna |->
                 IF ii - j >= 0 THEN RMul(y[ii - j + 1], t[j][1]) ELSE Q(0)]
        ex == [k \in 1..(nnb + 1) |->
                 IF ii - (k - 1) >= 0
                 THEN RMul(p[ii - (k - 1) + 1], t[nna + k][1]) ELSE Q(0)]
    IN  RAdd(RSum(ar), RSum(ex))

\* the loop advancing by two positions
NextPositionSkipping(ii) == ii + 2

\* the i++ of the loop of performPrediction
NextPosition(ii) == ii + 1

\* performPrediction, one pass of the loop body: the value for position ii
\* (0-based) from the buffer y, the inputs p and theta t
PredictionSum(y, p, t, ii, nna, nnb) ==
    LET ar == [j \in 1..nna |->
                 IF ii - j >= 0 THEN RNeg(RMul(y[ii - j + 1], t[j][1])) ELSE Q(0)]
        ex == [k \in 1..(nnb + 1) |->
                 IF ii - (k - 1) >= 0
                 THEN RMul(p[ii - (k - 1) + 1], t[nna + k][1]) ELSE Q(0)]
    IN  RAdd(RSum(ar), RSum(ex))

\* step 6 of Predict: result[i] = []float64{pl[i], yAp[i]}, each row fresh
RECURSIVE CombineRows(_, _, _, _)
CombineRows(hp, plId, yId, k) ==
    IF k > Len(hp[plId]) THEN hp
    ELSE CombineRows(Append(hp, <<hp[plId][k], hp[yId][k]>>), plId, yId, k + 1)

\* Combine with a result one entry short
CombineShort(hp, plId, yId) ==
    LET n == Len(hp[plId]) - 1
        base == Len(hp)
        hp1 == CombineRows(hp, plId, yId, 1)
    IN  [heap |-> Append(hp1, [k \in 1..n |-> base + k]), result |-> Len(hp1) + 1]

Combine(hp, plId, yId) ==
    LET n == Len(hp[plId])
        base == Len(hp)
        hp1 == CombineRows(hp, plId, yId, 1)
    IN  [heap |-> Append(hp1, [k \in 1..n |-> base + k]), result |-> Len(hp1) + 1]

\* ---------------------------------------------------------------- state
VARIABLES
    pc,            \* position: "new", "failed", "ready", a stage of Predict, "done"
    caller,        \* "Predict", or "test" when a function is called on its own
    heap,          \* backing arrays, by id
    argData,       \* the data argument of NewPredictor (a [][]float64)
    argParams,     \* the params argument of NewPredictor
    predictor,     \* <<>> (nil) or <<the Predictor>>
    newErr,        \* the error NewPredictor returned
    numToPredict,  \* argument of the running Predict call
    na, nb, stepSize, m,               \* locals of Predict
    timeValues, dataValues, pl, yAp, result,  \* slices (array ids)
    phi, th, err,                      \* matrices and the error of calculateTheta
    i,             \* loop variable of performPrediction
    stages,        \* the steps the running call has finished, in order
    ret,           \* what the last Predict call returned, once it has
    first,         \* what the first Predict call on this Predictor returned
    interleaved    \* a call with another horizon than the first has returned

vars == <<pc, caller, heap, argData, argParams, predictor, newErr, numToPredict,
          na, nb, stepSize, m, timeValues, dataValues, pl, yAp, result,
          phi, th, err, i, stages, ret, first, interleaved>>

locals == <<numToPredict, na, nb, stepSize, m, timeValues, dataValues, pl, yAp,
            result, phi, th, err, i>>

\* sequences over S of length at most n
RECURSIVE SeqsUpTo(_, _)
SeqsUpTo(S, n) ==
    IF n = 0 THEN {<<>>}
    ELSE LET shorter == SeqsUpTo(S, n - 1)
         IN  shorter \cup {Append(s, x) : s \in {t \in shorter : Len(t) = n - 1}, x \in S}

\* the heap holding a [][]float64 with rows [values[k], t0 + k - 1]: the
\* rows at ids 1..n, the outer array at id n + 1
DataHeap(values, t0) ==
    Append([k \in 1..Len(values) |-> <<Q(values[k]), Q(t0 + k - 1)>>],
           [k \in 1..Len(values) |-> k])

NoReturn == [called |-> FALSE, H |-> 0, result |-> <<>>, err |-> NoErr]

NoLocals ==
    /\ numToPredict = 0 /\ na = 0 /\ nb = 0 /\ stepSize = Q(0) /\ m = 0
    /\ timeValues = NilId /\ dataValues = NilId /\ pl = NilId /\ yAp = NilId
    /\ result = NilId /\ phi = NilMat /\ th = NilMat /\ err = NoErr /\ i = 0

Init ==
    /\ pc = "new"
    /\ caller = "Predict"
    /\ \E values \in SeqsUpTo(0..MaxVal, MaxLen), t0 \in Origins :
          /\ heap = DataHeap(values, t0)
          /\ argData = Len(values) + 1
    /\ argParams \in [AutoregressiveLags : 0..MaxNa,
                      ExternalInputLags : -1..MaxNb,
                      StepSize : {Q(s) : s \in StepSizes}]
    /\ predictor = <<>>
    /\ newErr = NoErr
    /\ NoLocals
    /\ stages = <<>>
    /\ ret = NoReturn
    /\ first = NoReturn
    /\ interleaved = FALSE

\* -------------------------------------------------------------- actions
\* p, err := NewPredictor(data, params)
New ==
    /\ pc = "new"
    /\ LET r == NewPredictor(argData, argParams)
       IN  /\ predictor' = r.p
           /\ newErr' = r.err
           /\ pc' = IF r.err = NoErr THEN "ready" ELSE "failed"
    /\ UNCHANGED <<caller, heap, argData, argParams, locals, stages, ret, first,
                   interleaved>>

\* the return of Predict(h): the caller gets the result by value and the
\* error; the locals of the call are gone, and with them every array only
\* they held
Return(h, res, e) ==
    LET r == [called |-> TRUE, H |-> h, result |-> res, err |-> e]
    IN  /\ ret' = r
        /\ first' = IF first.called THEN first ELSE r
        /\ interleaved' = (interleaved \/ (first.called /\ h # first.H))
        /\ pc' = "ready"
        /\ heap' = SubSeq(heap, 1, argData)
        /\ numToPredict' = 0 /\ na' = 0 /\ nb' = 0 /\ stepSize' = Q(0) /\ m' = 0
        /\ timeValues' = NilId /\ dataValues' = NilId /\ pl' = NilId
        /\ yAp' = NilId /\ result' = NilId
        /\ phi' = NilMat /\ th' = NilMat /\ err' = NoErr /\ i' = 0

\* p.Predict(h), up to the data-length check
PredictBegin ==
    /\ pc = "ready"
    /\ \E h \in 0..MaxH :
          LET P == predictor[1].Params
              mm == MaxLag(P.AutoregressiveLags, P.ExternalInputLags)
          IN  /\ stages' = <<>>
              /\ IF NotEnoughData(Len(heap[predictor[1].Data]), mm)
                 THEN Return(h, <<>>, ErrNotEnough)
                 ELSE /\ numToPredict' = h
                      /\ na' = P.AutoregressiveLags
                      /\ nb' = P.ExternalInputLags
                      /\ stepSize' = P.StepSize
                      /\ m' = mm
                      /\ pc' = "split"
                      /\ ret' = NoReturn
                      /\ UNCHANGED <<heap, timeValues, dataValues, pl, yAp,
                                     result, phi, th, err, i, first, interleaved>>
    /\ UNCHANGED <<caller, argData, argParams, predictor, newErr>>

\* step 1: timeValues and dataValues
Split ==
    /\ pc = "split"
    /\ LET r == SplitData(heap, predictor[1].Data)
       IN  /\ heap' = r.heap
           /\ timeValues' = r.timeValues
           /\ dataValues' = r.dataValues
    /\ stages' = Append(stages, "split")
    /\ pc' = "extend"
    /\ UNCHANGED <<caller, argData, argParams, predictor, newErr, numToPredict,
                   na, nb, stepSize, m, pl, yAp, result, phi, th, err, i,
                   ret, first, interleaved>>

\* step 2: pl := extendTimeValues(timeValues, numToPredict, stepSize)
Extend ==
    /\ pc = "extend"
    /\ LET r == extendTimeValues(heap, timeValues, numToPredict, stepSize)
       IN  /\ heap' = r.heap
           /\ pl' = r.pl
    /\ stages' = Append(stages, "extendTimeValues")
    /\ pc' = IF caller = "test" THEN "done" ELSE "phi"
    /\ UNCHANGED <<caller, argData, argParams, predictor, newErr, numToPredict,
                   na, nb, stepSize, m, timeValues, dataValues, yAp, result,
                   phi, th, err, i, ret, first, interleaved>>

\* step 3: phi := constructPhiMatrix(dataValues, timeValues, na, nb, m)
ConstructPhi ==
    /\ pc = "phi"
    /\ phi' = constructPhiMatrix(heap[dataValues], heap[timeValues], na, nb, m)
    /\ stages' = Append(stages, "constructPhiMatrix")
    /\ pc' = IF caller = "test" THEN "done" ELSE "phicheck"
    /\ UNCHANGED <<caller, heap, argData, argParams, predictor, newErr,
                   numToPredict, na, nb, stepSize, m, timeValues, dataValues,
                   pl, yAp, result, th, err, i, ret, first, interleaved>>

\* step 3: if phi == nil { return nil, error }
PhiCheck ==
    /\ pc = "phicheck"
    /\ IF PhiMissing(phi)
       THEN Return(numToPredict, <<>>, ErrPhi)
       ELSE /\ pc' = "theta"
            /\ UNCHANGED <<heap, numToPredict, na, nb, stepSize, m, timeValues,
                           dataValues, pl, yAp, result, phi, th, err, i, ret,
                           first, interleaved>>
    /\ UNCHANGED <<caller, argData, argParams, predictor, newErr, stages>>

\* step 4: th, err := calculateTheta(phi, dataValues)
Theta ==
    /\ pc = "theta"
    /\ LET r == calculateTheta(phi, heap[dataValues])
       IN  /\ r.th # NilMat => InRangeMat(r.th)
           /\ th' = r.th
           /\ err' = r.err
    /\ stages' = Append(stages, "calculateTheta")
    /\ pc' = IF caller = "test" THEN "done" ELSE "thetacheck"
    /\ UNCHANGED <<caller, heap, argData, argParams, predictor, newErr,
                   numToPredict, na, nb, stepSize, m, timeValues, dataValues,
                   pl, yAp, result, phi, i, ret, first, interleaved>>

\* step 4: if err != nil && err != mat.ErrSingular { return nil, error }
ThetaCheck ==
    /\ pc = "thetacheck"
    /\ IF ThetaFatal(err)
       THEN Return(numToPredict, <<>>, WrapTheta(err))
       ELSE /\ pc' = "seed"
            /\ UNCHANGED <<heap, numToPredict, na, nb, stepSize, m, timeValues,
                           dataValues, pl, yAp, result, phi, th, err, i, ret,
                           first, interleaved>>
    /\ UNCHANGED <<caller, argData, argParams, predictor, newErr, stages>>

\* step 5, performPrediction: the buffer and its seed
Seed ==
    /\ pc = "seed"
    /\ LET r == PredictionInit(heap, dataValues, pl)
       IN  /\ heap' = r.heap
           /\ yAp' = r.yAp
    /\ i' = LoopStart(m)
    /\ pc' = "loop"
    /\ UNCHANGED <<caller, argData, argParams, predictor, newErr, numToPredict,
                   na, nb, stepSize, m, timeValues, dataValues, pl, result,
                   phi, th, err, stages, ret, first, interleaved>>

\* step 5, performPrediction: one pass of the loop
Step ==
    /\ pc = "loop"
    /\ i < Len(heap[pl])
    /\ LET sum == PredictionSum(heap[yAp], heap[pl], th, i, na, nb)
       IN  /\ InRange(sum)
           /\ heap' = [heap EXCEPT ![yAp][i + 1] = sum]
    /\ i' = NextPosition(i)
    /\ UNCHANGED <<pc, caller, argData, argParams, predictor, newErr,
                   numToPredict, na, nb, stepSize, m, timeValues, dataValues,
                   pl, yAp, result, phi, th, err, stages, ret, first, interleaved>>

\* step 5, performPrediction: the loop ends and yAp is returned
LoopEnd ==
    /\ pc = "loop"
    /\ i >= Len(heap[pl])
    /\ stages' = Append(stages, "performPrediction")
    /\ pc' = IF caller = "test" THEN "done" ELSE "combine"
    /\ UNCHANGED <<caller, heap, argData, argParams, predictor, newErr,
                   numToPredict, na, nb, stepSize, m, timeValues, dataValues,
                   pl, yAp, result, phi, th, err, i, ret, first, interleaved>>

\* step 6: the result pairs
CombineResult ==
    /\ pc = "combine"
    /\ LET r == Combine(heap, pl, yAp)
       IN  /\ heap' = r.heap
           /\ result' = r.result
    /\ pc' = "return"
    /\ UNCHANGED <<caller, argData, argParams, predictor, newErr, numToPredict,
                   na, nb, stepSize, m, timeValues, dataValues, pl, yAp, phi,
                   th, err, i, stages, ret, first, interleaved>>

\* return result, err
ReturnResult ==
    /\ pc = "return"
    /\ Return(numToPredict, Deref(heap, result), err)
    /\ UNCHANGED <<caller, argData, argParams, predictor, newErr, stages>>

Next ==
    \/ New
    \/ PredictBegin
    \/ Split
    \/ Extend
    \/ ConstructPhi
    \/ PhiCheck
    \/ Theta
    \/ ThetaCheck
    \/ Seed
    \/ Step
    \/ LoopEnd
    \/ CombineResult
    \/ ReturnResult

Spec == Init /\ [][Next]_vars

\* ------------------------------------------- the functions on their own
\* what the variables of a Predictor hold when a function of the package is
\* called directly, as the package's tests do
NoPredictor ==
    /\ caller = "test"
    /\ argData = NilId
    /\ argParams = [AutoregressiveLags |-> 0, ExternalInputLags |-> 0,
                    StepSize |-> Q(0)]
    /\ predictor = <<>>
    /\ newErr = NoErr
    /\ stages = <<>>
    /\ ret = NoReturn
    /\ first = NoReturn
    /\ interleaved = FALSE

\* extendTimeValues(series, n, step) for a non-empty series
InitExtend ==
    /\ NoPredictor
    /\ pc = "extend"
    /\ \E series \in SeqsUpTo(-1..MaxVal, MaxLen) \ {<<>>} :
          heap = << [k \in 1..Len(series) |-> Q(series[k])] >>
    /\ timeValues = 1
    /\ numToPredict \in 0..MaxH
    /\ stepSize \in {Q(s) : s \in StepSizes}
    /\ na = 0 /\ nb = 0 /\ m = 0
    /\ dataValues = NilId /\ pl = NilId /\ yAp = NilId /\ result = NilId
    /\ phi = NilMat /\ th = NilMat /\ err = NoErr /\ i = 0

NextExtend == Extend

SpecExtend == InitExtend /\ [][NextExtend]_vars

\* theta values tried on their own: entry k is c * k
TestTheta(c, n) == [k \in 1..n |-> <<Q(c * k)>>]

\* performPrediction(Y, pl, th, m, na, nb) for a series Y, inputs
\* pl = 1, 2, ..., L and a theta of na + nb + 1 rows
InitForecast ==
    /\ NoPredictor
    /\ pc = "seed"
    /\ \E Y \in SeqsUpTo(0..MaxVal, MaxLen), L \in 0..(MaxLen + 1) :
          heap = << [k \in 1..Len(Y) |-> Q(Y[k])], [k \in 1..L |-> Q(k)] >>
    /\ dataValues = 1
    /\ pl = 2
    /\ na \in 0..MaxNa
    /\ nb \in 0..MaxNb
    /\ m \in 0..MaxNa
    /\ \E c \in {-1, 1} : th = TestTheta(c, na + nb + 1)
    /\ numToPredict = 0 /\ stepSize = Q(0)
    /\ timeValues = NilId /\ yAp = NilId /\ result = NilId
    /\ phi = NilMat /\ err = NoErr /\ i = 0

NextForecast ==
    \/ Seed
    \/ Step
    \/ LoopEnd

SpecForecast == InitForecast /\ [][NextForecast]_vars

\* constructPhiMatrix(Y, P, na, nb, m) for series Y and P of one length, P
\* being Origin, Origin + 1, ..., and any lag window m
InitPhi ==
    /\ NoPredictor
    /\ pc = "phi"
    /\ \E Y \in SeqsUpTo(0..MaxVal, MaxLen), t0 \in Origins :
          heap = << [k \in 1..Len(Y) |-> Q(Y[k])],
                    [k \in 1..Len(Y) |-> Q(t0 + k - 1)] >>
    /\ dataValues = 1
    /\ timeValues = 2
    /\ na \in 0..MaxNa
    /\ nb \in 0..MaxNb
    /\ m \in 0..MaxLen
    /\ numToPredict = 0 /\ stepSize = Q(0)
    /\ pl = NilId /\ yAp = NilId /\ result = NilId
    /\ phi = NilMat /\ th = NilMat /\ err = NoErr /\ i = 0

NextPhi == ConstructPhi

SpecPhi == InitPhi /\ [][NextPhi]_vars

\* the shapes (rows, columns) of the matrices calculateTheta is tried on
TestDims == {<<1, 1>>, <<1, 2>>, <<2, 1>>, <<2, 2>>}

\* the r x c matrices with entries in 0..MaxVal+1
TestMatrices(r, c) ==
    {[a \in 1..r |-> [b \in 1..c |-> Q(f[a][b])]] :
        f \in [1..r -> [1..c -> 0..(MaxVal + 1)]]}

\* calculateTheta(phi, Y) for a matrix phi and a series Y of at least as
\* many entries as phi has rows
InitTheta ==
    /\ NoPredictor
    /\ pc = "theta"
    /\ \E d \in TestDims :
          /\ phi \in TestMatrices(d[1], d[2])
          /\ \E Y \in {y \in SeqsUpTo(0..MaxVal, MaxLen) : Len(y) >= d[1]} :
                heap = << [k \in 1..Len(Y) |-> Q(Y[k])] >>
    /\ dataValues = 1
    /\ na = 0 /\ nb = 0 /\ m = 0
    /\ numToPredict = 0 /\ stepSize = Q(0)
    /\ timeValues = NilId /\ pl = NilId /\ yAp = NilId /\ result = NilId
    /\ th = NilMat /\ err = NoErr /\ i = 0

NextTheta == Theta

SpecTheta == InitTheta /\ [][NextTheta]_vars

\* a Predictor written as a struct literal, &Predictor{Data: data, Params:
\* params}, which NewPredictor has not seen: any parameters that give the
\* design matrix at least one column
InitLiteral ==
    /\ pc = "ready"
    /\ caller = "literal"
    /\ \E values \in SeqsUpTo(0..MaxVal, MaxLen), t0 \in Origins :
          /\ heap = DataHeap(values, t0)
          /\ argData = Len(values) + 1
    /\ argParams \in {q \in [AutoregressiveLags : 0..MaxNa,
                              ExternalInputLags : -1..MaxNb,
                              StepSize : {Q(s) : s \in StepSizes}] :
                         q.AutoregressiveLags + q.ExternalInputLags + 1 >= 1}
    /\ predictor = <<[Data |-> argData, Params |-> argParams]>>
    /\ newErr = NoErr
    /\ NoLocals
    /\ stages = <<>>
    /\ ret = NoReturn
    /\ first = NoReturn
    /\ interleaved = FALSE

\* one Predict call on the literal
NextLiteral ==
    \/ (~first.called /\ PredictBegin)
    \/ Split
    \/ Extend
    \/ ConstructPhi
    \/ PhiCheck
    \/ Theta
    \/ ThetaCheck
    \/ Seed
    \/ Step
    \/ LoopEnd
    \/ CombineResult
    \/ ReturnResult

SpecLiteral == InitLiteral /\ [][NextLiteral]_vars

\* calculateTheta called on its own or by Predict on a literal
InitEstimate == InitTheta \/ InitLiteral

SpecEstimate == InitEstimate /\ [][NextLiteral]_vars

\* ------------------------------------------ the least-squares predictor
WrapATA(e) == "error inverting ATA matrix: " \o e

\* first input value of the series the least-squares predictor is tried on
LSOrigins == {-2}

\* math.Cos on the integers 0..15, in tenths (the nearest tenth of the
\* cosine); the cosine is even
CosTenths == <<10, 5, -4, -10, -7, 3, 10, 8, -1, -9, -8, 0, 8, 9, 1, -8>>
Cos(x) ==
    IF InRange(x) /\ x[2] = 1 /\ Abs(x[1]) < Len(CosTenths)
    THEN Norm(CosTenths[Abs(x[1]) + 1], 10)
    ELSE OutOfRange

\* the rows [p^2, p, 1, cos(p)] of the matrices A and Atest
Basis(P) == [k \in 1..Len(P) |-> <<RMul(P[k], P[k]), P[k], Q(1), Cos(P[k])>>]

NewLSPredictor(data, params) ==
    IF params.StepSize[1] <= 0
    THEN [p |-> <<>>, err |-> ErrStep]
    ELSE [p |-> <<[Data |-> data, Params |-> params]>>, err |-> NoErr]

\* the result one entry short
LSResultShort(Pl, y) == [k \in 1..(Len(Pl) - 1) |-> <<Pl[k], y[k][1]>>]

\* the result pairs of LSPredictor.Predict: result[i] = {Pl[i], yAp.At(i, 0)}
LSResult(Pl, y) == [k \in 1..Len(Pl) |-> <<Pl[k], y[k][1]>>]

InitLS ==
    /\ pc = "new"
    /\ caller = "LS"
    /\ \E values \in SeqsUpTo(0..MaxVal, MaxLen + 1), t0 \in LSOrigins :
          /\ heap = DataHeap(values, t0)
          /\ argData = Len(values) + 1
    /\ argParams \in [StepSize : {Q(s) : s \in StepSizes}]
    /\ predictor = <<>>
    /\ newErr = NoErr
    /\ NoLocals
    /\ stages = <<>>
    /\ ret = NoReturn
    /\ first = NoReturn
    /\ interleaved = FALSE

\* p, err := NewLSPredictor(data, params)
NewLS ==
    /\ pc = "new"
    /\ LET r == NewLSPredictor(argData, argParams)
       IN  /\ predictor' = r.p
           /\ newErr' = r.err
           /\ pc' = IF r.err = NoErr THEN "ready" ELSE "failed"
    /\ UNCHANGED <<caller, heap, argData, argParams, locals, stages, ret, first,
                   interleaved>>

\* p.Predict(h) of the least-squares predictor, up to Pl; on empty data
\* extendTimeValues indexes timeValues[-1] and the call panics
LSBegin ==
    /\ pc = "ready"
    /\ \E h \in 0..MaxH :
          IF Len(heap[predictor[1].Data]) = 0
          THEN /\ pc' = "panic"
               /\ UNCHANGED <<heap, locals, ret>>
          ELSE LET s == SplitData(heap, predictor[1].Data)
                   e == extendTimeValues(s.heap, s.timeValues, h,
                                         predictor[1].Params.StepSize)
               IN  /\ heap' = e.heap
                   /\ timeValues' = s.timeValues
                   /\ dataValues' = s.dataValues
                   /\ pl' = e.pl
                   /\ numToPredict' = h
                   /\ stepSize' = predictor[1].Params.StepSize
                   /\ ret' = NoReturn
                   /\ pc' = "lsinvert"
                   /\ UNCHANGED <<na, nb, m, yAp, result, phi, th, err, i>>
    /\ UNCHANGED <<caller, argData, argParams, predictor, newErr, stages, first,
                   interleaved>>

\* A, A' * A and its inverse, which phi holds from here on; a failed
\* inversion ends the call with an empty result and the wrapped error
LSInvert ==
    /\ pc = "lsinvert"
    /\ LET A == Basis(heap[timeValues])
           inv == Inverse(Mul(Transpose(A), A))
       IN  IF inv.err # NoErr
           THEN Return(numToPredict, <<>>, WrapATA(inv.err))
           ELSE /\ InRangeMat(inv.m)
                /\ phi' = inv.m
                /\ pc' = "lstheta"
                /\ UNCHANGED <<heap, numToPredict, na, nb, stepSize, m,
                               timeValues, dataValues, pl, yAp, result, th, err,
                               i, ret, first, interleaved>>
    /\ UNCHANGED <<caller, argData, argParams, predictor, newErr, stages>>

\* th = (A' * A)^-1 * A' * Y
LSTheta ==
    /\ pc = "lstheta"
    /\ LET At == Transpose(Basis(heap[timeValues]))
           Y == heap[dataValues]
           t == Mul(Mul(phi, At), [k \in 1..Len(Y) |-> <<Y[k]>>])
       IN  /\ InRangeMat(t)
           /\ th' = t
    /\ pc' = "lseval"
    /\ UNCHANGED <<caller, heap, argData, argParams, predictor, newErr,
                   numToPredict, na, nb, stepSize, m, timeValues, dataValues,
                   pl, yAp, result, phi, err, i, stages, ret, first, interleaved>>

\* yAp = Atest * th, the result pairs and the return
LSEval ==
    /\ pc = "lseval"
    /\ LET y == Mul(Basis(heap[pl]), th)
       IN  /\ InRangeMat(y)
           /\ Return(numToPredict, LSResult(heap[pl], y), NoErr)
    /\ UNCHANGED <<caller, argData, argParams, predictor, newErr, stages>>

\* NewLSPredictor and one Predict call, as TestLSPredict makes them
NextLS ==
    \/ NewLS
    \/ (~first.called /\ LSBegin)
    \/ LSInvert
    \/ LSTheta
    \/ LSEval

SpecLS == InitLS /\ [][NextLS]_vars

\* ------------------------------------------------------- the properties
\* the historical series as NewPredictor got it
N == Len(heap[argData])
HistY == [k \in 1..N |-> heap[heap[argData][k]][1]]
HistP == [k \in 1..N |-> heap[heap[argData][k]][2]]
ParamNa == argParams.AutoregressiveLags
ParamNb == argParams.ExternalInputLags
ParamStep == argParams.StepSize
LagWindow == Max(ParamNa, ParamNb)
InvalidParams == ParamNa <= 0 \/ ParamNb < 0 \/ ParamStep[1] <= 0
InPredict == pc \in {"split", "extend", "phi", "phicheck", "theta", "thetacheck",
                     "seed", "loop", "combine", "return"}

C2_ResultLength ==
    (ret.called /\ ret.result # <<>>) =>
        /\ N > LagWindow
        /\ Len(ret.result) = N + ret.H
        /\ \A k \in 1..Len(ret.result) : Len(ret.result[k]) = 2

\* a call with the largest horizon has returned a result
C2_Witness == ret.called /\ ret.result # <<>> /\ ret.H = MaxH

\* C3: in the result of Predict(H), entry i carries the historical input
\* Data[i][1] for i < originalLength and Data[originalLength-1][1] + k*StepSize
\* for i = originalLength-1+k, k = 1..H, and its second component is yAp[i].
C3_ResultEntries ==
    pc = "return" =>
        LET res == Deref(heap, result)
        IN  /\ Len(res) = N + numToPredict
            /\ \A k \in 1..Len(res) :
                  /\ res[k][1] = IF k <= N THEN HistP[k]
                                 ELSE RAdd(HistP[N], RMul(Q(k - N), ParamStep))
                  /\ res[k][2] = heap[yAp][k]

\* a result with extrapolated entries is about to be returned
C3_Witness == pc = "return" /\ numToPredict = MaxH /\ N > 0

\* C4: Predict fails with the not-enough-data error and a nil result exactly
\* when originalLength <= max(na, nb), for every horizon, and it decides so
\* before any stage of the pipeline has run.
C4_InsufficientData ==
    /\ ret.called =>
          /\ (N <= LagWindow) <=> (ret.err = ErrNotEnough)
          /\ ret.err = ErrNotEnough => (ret.result = <<>> /\ stages = <<>>)
    /\ (caller = "Predict" /\ InPredict) => N > LagWindow

\* a call with a positive horizon has failed for lack of data
C4_Witness == ret.called /\ ret.err = ErrNotEnough /\ ret.H > 0 /\ N > 0

\* the design matrix of the history and whether its normal-equations matrix
\* (phi transposed times phi) has no inverse
HistPhi == constructPhiMatrix(HistY, HistP, ParamNa, ParamNb, LagWindow)
SingularNormal ==
    /\ N > LagWindow
    /\ Inverse(Mul(Transpose(HistPhi), HistPhi)).err # NoErr
ThetaError == WrapTheta(WrapInversion(ErrCondition))

\* C5: when phi transposed times phi is singular, calculateTheta returns a
\* non-nil theta together with the SingularMatrix condition, and Predict
\* still runs the forecaster and returns originalLength + H pairs alongside
\* that condition.
C5_SingularTolerated ==
    /\ (pc = "thetacheck" /\ SingularNormal) => (th # NilMat /\ err = ErrSingular)
    /\ (ret.called /\ SingularNormal) =>
          /\ ret.err = ErrSingular
          /\ Len(ret.result) = N + ret.H
          /\ stages[Len(stages)] = "performPrediction"

\* C6: calculateTheta returns a nil theta exactly when its error is neither
\* nil nor SingularMatrix (so never with a nil error); Predict then returns
\* a nil result with the wrapped error, and the forecaster runs only after
\* an estimation that was not fatal.
C6_OtherFailuresFatal ==
    /\ pc = "thetacheck" =>
          /\ (th = NilMat) <=> (err # NoErr /\ err # ErrSingular)
          /\ err = NoErr => th # NilMat
    /\ (caller = "Predict" /\ pc \in {"seed", "loop", "combine", "return"}) =>
          (th # NilMat /\ err \in {NoErr, ErrSingular})
    /\ (ret.called /\ stages # <<>> /\ stages[Len(stages)] = "calculateTheta") =>
          (ret.result = <<>> /\ ret.err = ThetaError)
    /\ (ret.called /\ ret.result # <<>>) =>
          (stages[Len(stages)] = "performPrediction" /\ ret.err \in {NoErr, ErrSingular})

\* a call has ended in calculateTheta's failure
C6_Witness ==
    /\ ret.called /\ ret.err = ThetaError /\ ret.result = <<>>
    /\ stages = <<"split", "extendTimeValues", "constructPhiMatrix", "calculateTheta">>

\* C7 as stated: for every call performPrediction(Y, pl, theta, m, na, nb)
\* with L = len(pl), the first min(L, len(Y)) entries of the returned series
\* equal the historical values Y[0 .. min(L, len(Y))).
C7_HistoryKept ==
    (caller = "test" /\ pc = "done" /\ yAp # NilId) =>
        \A k \in 1..Min(Len(heap[pl]), Len(heap[dataValues])) :
            heap[yAp][k] = heap[dataValues][k]

\* C7 as the code has it: the first min(L, len(Y), m + 1) entries of the
\* returned series equal the historical values; later positions hold the
\* forecaster's own values even where a historical value exists.
C7_SeedKept ==
    (caller = "test" /\ pc = "done" /\ yAp # NilId) =>
        /\ Len(heap[yAp]) = Len(heap[pl])
        /\ \A k \in 1..Min(Min(Len(heap[pl]), Len(heap[dataValues])), m + 1) :
              heap[yAp][k] = heap[dataValues][k]

\* performPrediction has returned a series whose position m + 1, inside the
\* history, differs from the historical value
C7_Witness ==
    /\ caller = "test" /\ pc = "done" /\ yAp # NilId
    /\ m + 2 <= Min(Len(heap[pl]), Len(heap[dataValues]))
    /\ heap[yAp][m + 2] # heap[dataValues][m + 2]
    /\ heap[yAp][m + 1] = heap[dataValues][m + 1]

\* C8: the outcome of Predict(H) is the same whether the call is the first
\* on the Predictor or follows other calls, with other horizons among them:
\* a call with the horizon of the first call returns what the first returned.
C8_Deterministic ==
    (ret.called /\ first.called /\ ret.H = first.H) =>
        (ret.result = first.result /\ ret.err = first.err)

\* a call with the first call's horizon has returned a result after calls
\* with another horizon
C8_Witness ==
    /\ ret.called /\ first.called /\ interleaved
    /\ ret.H = first.H /\ ret.result # <<>>

\* C9: NewPredictor returns an error if the parameters are invalid or if the
\* series is too short for the lags (length at most max(na, nb)).
C9_NewPredictorChecksData ==
    (caller = "Predict" /\ pc # "new" /\ (InvalidParams \/ N <= LagWindow)) =>
        (newErr # NoErr /\ predictor = <<>>)

\* C10: extendTimeValues(series, H, step) for a non-empty series returns a
\* sequence of length len(series) + H that starts with series and continues
\* with last(series) + k*step, k = 1..H, for any sign of step; it is a
\* separate array even for H = 0, and the array of series is not written.
C10_ExtendResult ==
    (caller = "test" /\ pc = "done" /\ pl # NilId) =>
        LET series == heap[timeValues]
            out == heap[pl]
            len == Len(series)
        IN  /\ Len(out) = len + numToPredict
            /\ \A k \in 1..len : out[k] = series[k]
            /\ \A k \in 1..numToPredict :
                  out[len + k] = RAdd(series[len], RMul(Q(k), stepSize))
            /\ pl # timeValues

C10_ExtendTimeValues ==
    /\ []C10_ExtendResult
    /\ [][pc = "extend" => heap'[timeValues] = heap[timeValues]]_vars

\* a series has been extended by at least one entry with a negative step
C10_Witness ==
    /\ caller = "test" /\ pc = "done" /\ pl # NilId
    /\ numToPredict = MaxH /\ stepSize[1] < 0 /\ Len(heap[timeValues]) > 1

\* C11: constructPhiMatrix(Y, P, na, nb, m) with N = len(Y) returns a matrix of
\* exactly N - m rows and na + nb + 1 columns when N > m and nil when N <= m
\* (so for the empty series whatever na and nb are); it has no error to
\* report and leaves the error untouched.
C11_PhiDims ==
    (caller = "test" /\ pc = "done" /\ stages = <<"constructPhiMatrix">>) =>
        LET len == Len(heap[dataValues])
        IN  /\ (phi = NilMat) <=> (len <= m)
            /\ len > m =>
                  /\ Rows(phi) = len - m
                  /\ \A r \in 1..Rows(phi) : Len(phi[r]) = na + nb + 1
            /\ err = NoErr

\* a design matrix of several rows and columns has been built with a
\* positive lag window
C11_Witness ==
    /\ caller = "test" /\ pc = "done" /\ stages = <<"constructPhiMatrix">>
    /\ m > 0 /\ phi # NilMat /\ Rows(phi) = 2 /\ Cols(phi) = 3

\* constructPhiMatrix has returned nil for the empty series
C11_WitnessEmpty ==
    /\ caller = "test" /\ pc = "done" /\ stages = <<"constructPhiMatrix">>
    /\ heap[dataValues] = <<>> /\ na > 0 /\ phi = NilMat

\* calculateTheta has returned to a direct caller
ThetaReturned == caller = "test" /\ pc = "done" /\ stages = <<"calculateTheta">>

\* C12: for a square, non-singular design matrix phi, calculateTheta reports
\* no error and its theta satisfies phi * theta = yTail, yTail being the last
\* R entries of Y (R the number of rows of phi).
C12_SquareExact ==
    (ThetaReturned /\ Rows(phi) = Cols(phi) /\ Inverse(phi).err = NoErr) =>
        /\ err = NoErr
        /\ th # NilMat
        /\ Mul(phi, th) = YTail(heap[dataValues], Rows(phi))

\* theta has been computed for a non-singular 2 x 2 matrix without a zero
\* entry and a series longer than the matrix has rows, with a last entry
\* that differs from the first
C12_Witness ==
    /\ ThetaReturned /\ Rows(phi) = 2 /\ Cols(phi) = 2
    /\ Inverse(phi).err = NoErr
    /\ \A r \in 1..2 : \A c \in 1..2 : phi[r][c] # Q(0)
    /\ Len(heap[dataValues]) = 3
    /\ heap[dataValues][1] # heap[dataValues][3]
    /\ err = NoErr

\* C13: LSPredictor.Predict(H) on an LSPredictor that NewLSPredictor built
\* over non-empty data returns, when it succeeds, exactly len(data) + H
\* entries, each a pair, and the time of the last entry is the last
\* historical time + H * StepSize.
C13_LSResult ==
    (caller = "LS" /\ ret.called /\ ret.err = NoErr) =>
        /\ N > 0
        /\ Len(ret.result) = N + ret.H
        /\ \A k \in 1..Len(ret.result) : Len(ret.result[k]) = 2
        /\ ret.result[N + ret.H][1] =
              RAdd(HistP[N], RMul(Q(ret.H), argParams.StepSize))

\* the least-squares predictor has returned a forecast for the largest horizon
C13_Witness ==
    /\ caller = "LS" /\ ret.called /\ ret.err = NoErr /\ ret.H = MaxH
    /\ \E k \in 1..N : HistY[k] # Q(0)

\* performPrediction is running or has returned
Forecasting == pc \in {"loop", "done"} /\ yAp # NilId

\* what the seed copy leaves at position k (0-based): the historical value,
\* or the zero of the fresh buffer beyond the history
Seeded(k) ==
    IF k < Len(heap[dataValues]) THEN heap[dataValues][k + 1] ELSE Q(0)

\* the forecast the recursion defines for position k (0-based): positions up
\* to m are seeds, later ones are computed from the forecasts before them
RECURSIVE Feedback(_)
Feedback(k) ==
    IF k <= m THEN Seeded(k)
    ELSE RAdd(RSum([j \in 1..na |->
                      IF k - j >= 0
                      THEN RMul(RNeg(th[j][1]), Feedback(k - j)) ELSE Q(0)]),
              RSum([c \in 1..(nb + 1) |->
                      LET j == c - 1
                      IN  IF k - j >= 0
                          THEN RMul(th[na + j + 1][1], heap[pl][k - j + 1])
                          ELSE Q(0)]))

\* C14: for every position i with m < i < L, performPrediction sets yAp[i] to
\* the sum over j = 1..na with i-j >= 0 of -theta[j-1] * yAp[i-j] plus the sum
\* over j = 0..nb with i-j >= 0 of theta[na+j] * pl[i-j], where yAp[i-j] is
\* the forecast already computed when i-j > m, even if a historical value
\* exists there, and the seeded historical value when i-j <= m.
C14_Recursion ==
    Forecasting =>
        \A k \in (m + 1)..(i - 1) : heap[yAp][k + 1] = Feedback(k)

\* performPrediction has returned a series in which a position was computed
\* from an earlier forecast that differs from the historical value there
C14_Witness ==
    /\ caller = "test" /\ pc = "done" /\ yAp # NilId
    /\ na > 0 /\ nb > 0
    /\ \E k \in (m + 2)..(Len(heap[pl]) - 1) :
          /\ k - 1 < Len(heap[dataValues])
          /\ heap[yAp][k] # heap[dataValues][k]
          /\ heap[yAp][k + 1] # Q(0)

\* positions 0..m of the buffer that lie inside both pl and the history
SeedPositions ==
    {k \in 0..m : k < Min(Len(heap[pl]), Len(heap[dataValues]))}

\* every seed position holds its historical value
C15_SeedsHold ==
    Forecasting => \A k \in SeedPositions : heap[yAp][k + 1] = heap[dataValues][k + 1]

\* C15: performPrediction never recomputes positions 0..m: for every i <= m
\* with i < min(L, len(Y)), yAp[i] = Y[i] in every state during and after
\* the recursion; the loop starts at m + 1 and no pass writes a position
\* below it, so index m keeps its seeded historical value.
C15_SeedsNeverRecomputed ==
    /\ []C15_SeedsHold
    /\ [][(pc = "seed") => (i' = m + 1)]_vars
    /\ [][(pc = "loop" /\ pc' = "loop") =>
             /\ i > m
             /\ \A k \in 0..m : k < Len(heap[yAp]) =>
                    heap'[yAp][k + 1] = heap[yAp][k + 1]]_vars

\* the loop has computed a position while index m > 0 still holds its
\* historical value, which a pass of the loop at m would have changed
C15_Witness ==
    /\ caller = "test" /\ pc = "loop" /\ yAp # NilId
    /\ m > 0 /\ i > m + 1
    /\ m \in SeedPositions
    /\ heap[yAp][m + 1] = heap[dataValues][m + 1]
    /\ PredictionSum(heap[yAp], heap[pl], th, m, na, nb) # heap[yAp][m + 1]

\* constructPhiMatrix has returned to a direct caller
PhiReturned == caller = "test" /\ pc = "done" /\ stages = <<"constructPhiMatrix">>

\* C16: output row i of constructPhiMatrix (series index t = i + m) holds
\* -Y[t-j] in column j-1 for j = 1..na and P[t-j] in column na+j for
\* j = 0..nb; where t-j < 0 (early rows, when m is smaller than na or nb)
\* the entry is 0 and the row is emitted all the same, so the matrix has
\* N - m rows.
C16_PhiEntries ==
    (PhiReturned /\ phi # NilMat) =>
        LET Y == heap[dataValues]
            P == heap[timeValues]
        IN  /\ Rows(phi) = Len(Y) - m
            /\ \A row \in 0..(Rows(phi) - 1) :
                  LET t == row + m
                  IN  /\ \A j \in 1..na :
                            phi[row + 1][j] =
                                IF t - j >= 0 THEN RNeg(Y[t - j + 1]) ELSE Q(0)
                      /\ \A j \in 0..nb :
                            phi[row + 1][na + j + 1] =
                                IF t - j >= 0 THEN P[t - j + 1] ELSE Q(0)

\* a design matrix has been built with m smaller than na and nb: its first
\* row is zero-padded in both parts next to non-zero entries, and a later
\* row is not padded
C16_Witness ==
    /\ PhiReturned /\ phi # NilMat
    /\ m = 0 /\ na = 2 /\ nb = 1 /\ Rows(phi) = 3
    /\ phi[1] = <<Q(0), Q(0), heap[timeValues][1], Q(0)>>
    /\ phi[3][1] # Q(0) /\ phi[3][2] # Q(0) /\ phi[3][4] # Q(0)

\* during the loop the positions from i on have not been written yet: they
\* hold what the seed copy left
C17_Unwritten ==
    (pc = "loop" /\ yAp # NilId) =>
        \A k \in i..(Len(heap[yAp]) - 1) : heap[yAp][k + 1] = Seeded(k)

\* C17: performPrediction fills its buffer strictly left to right: after the
\* seed copy the positions m+1, m+2, ..., L-1 are each written exactly once,
\* in increasing order; a pass at position i writes position i only, so the
\* positions below i, among them all it reads (i-1 down to i-na), hold their
\* final values, and nothing is modified once a later position is written.
C17_LeftToRight ==
    /\ []C17_Unwritten
    /\ [](Forecasting => (i > m /\ (pc = "done" => i = Max(m + 1, Len(heap[pl])))))
    /\ [][(pc = "seed") => (i' = m + 1)]_vars
    /\ [][(pc = "loop" /\ pc' = "loop") =>
             /\ i < Len(heap[pl])
             /\ i' = i + 1
             /\ \A k \in 0..(Len(heap[yAp]) - 1) :
                    k # i => heap'[yAp][k + 1] = heap[yAp][k + 1]]_vars
    /\ [][Forecasting =>
             \A k \in 0..(i - 1) : k < Len(heap[yAp]) =>
                 heap'[yAp][k + 1] = heap[yAp][k + 1]]_vars

\* the loop has written two positions in turn, the second from the first,
\* and both now differ from what the seed copy had left there
C17_Witness ==
    /\ caller = "test" /\ pc = "done" /\ yAp # NilId
    /\ na > 0 /\ Len(heap[pl]) >= m + 3
    /\ heap[yAp][m + 2] # Seeded(m + 1)
    /\ heap[yAp][m + 3] # Seeded(m + 2)
    /\ th[1][1] # Q(0)

\* the four stages of a forecast request, in the order of the pipeline, and
\* those the running (or last) call has finished
Pipeline ==
    <<"extendTimeValues", "constructPhiMatrix", "calculateTheta", "performPrediction">>
StagesRun == SelectSeq(stages, LAMBDA x : x # "split")
StagesAt ==
    CASE pc \in {"split", "extend"} -> 0
      [] pc = "phi" -> 1
      [] pc \in {"phicheck", "theta"} -> 2
      [] pc \in {"thetacheck", "seed", "loop"} -> 3
      [] OTHER -> 4

\* C18: Predict never validates the parameters (NewPredictor alone does): a
\* Predictor with any parameters and enough data goes through the pipeline,
\* and no call ends in a parameter error.  Every call that passes the
\* data-length check runs TimeAxisExtender, DesignMatrixBuilder,
\* CoefficientEstimator and RecursiveForecaster in this order, each once and
\* each after the one before has finished, stopping at a fatal failure.
C18_StageOrder ==
    /\ Len(StagesRun) <= 4 /\ StagesRun = SubSeq(Pipeline, 1, Len(StagesRun))
    /\ InPredict => Len(StagesRun) = StagesAt
    /\ pc \in {"seed", "loop", "combine", "return"} => err \in {NoErr, ErrSingular}
    /\ pc \in {"theta", "seed", "loop", "combine", "return"} => phi # NilMat
    /\ ret.called =>
          /\ ret.err \notin {ErrLags, ErrStep}
          /\ (ret.err = ErrNotEnough) <=> (stages = <<>>)
          /\ (ret.err = ErrNotEnough) <=> (N <= LagWindow)
          /\ (ret.result # <<>>) <=> (StagesRun = Pipeline)
          /\ (ret.err = ErrPhi) => (StagesRun = SubSeq(Pipeline, 1, 2))
          /\ (ret.err = ThetaError) <=> (StagesRun = SubSeq(Pipeline, 1, 3))

\* a Predictor whose parameters NewPredictor rejects (no autoregressive lag,
\* a negative step) has run the four stages and returned a result
C18_Witness ==
    /\ caller = "literal" /\ ret.called /\ ret.result # <<>>
    /\ ParamNa = 0 /\ ParamStep[1] < 0 /\ ret.H = MaxH
    /\ StagesRun = Pipeline

\* a call has stopped at the fatal failure of the CoefficientEstimator
C18_WitnessFatal ==
    /\ caller = "literal" /\ ret.called /\ ret.err = ThetaError
    /\ StagesRun = SubSeq(Pipeline, 1, 3)

\* theta solves the normal equations of phi against the column target
SolvesNormal(target) ==
    Mul(Mul(Transpose(phi), phi), th) = Mul(Transpose(phi), target)

\* C19: calculateTheta regresses phi against the last R entries of Y, R
\* being the number of rows of phi; inside Predict R = N - m, the target is
\* Y[m .. N) and design row i, built from the lags of series index i + m,
\* is paired with the target value Y[i + m].
C19_TargetAligned ==
    /\ (ThetaReturned /\ err = NoErr) =>
          LET Y == heap[dataValues]
              R == Rows(phi)
          IN  SolvesNormal([r \in 1..R |-> <<Y[Len(Y) - R + r]>>])
    /\ (caller = "literal" /\ pc = "thetacheck") =>
          /\ Rows(phi) = N - m
          /\ \A r \in 1..Rows(phi) : \A c \in 1..Cols(phi) :
                phi[r][c] = PhiEntry(HistY, HistP, na, nb, m, r - 1, c)
          /\ err = NoErr => SolvesNormal([r \in 1..(N - m) |-> <<HistY[m + r]>>])

\* inside Predict theta has been estimated with m > 0 from a series whose
\* first N - m values are not its last N - m values
C19_Witness ==
    /\ caller = "literal" /\ pc = "thetacheck" /\ err = NoErr
    /\ m > 0 /\ Rows(phi) > 1
    /\ \E r \in 1..(N - m) : HistY[r] # HistY[m + r]

\* theta has been estimated by a direct call from a series longer than phi
\* has rows
C19_WitnessDirect ==
    /\ ThetaReturned /\ err = NoErr /\ Rows(phi) = 2
    /\ Len(heap[dataValues]) = 3
    /\ heap[dataValues][1] # heap[dataValues][3]

\* the arrays of Data: its rows and its outer array
DataArrays == SubSeq(heap, 1, argData)

\* the slices the running call has built so far
Built == {id \in {timeValues, dataValues, pl, yAp, result} : id # NilId}

\* the Predictor holds what NewPredictor was given, and what a call builds
\* lies outside the arrays of Data, each sequence in an array of its own
C20_PredictorKept ==
    (caller = "Predict" /\ predictor # <<>>) =>
        /\ predictor = <<[Data |-> argData, Params |-> argParams]>>
        /\ ParamNa > 0 /\ ParamNb >= 0 /\ ParamStep[1] > 0
        /\ Len(heap) >= argData
        /\ \A id \in Built : id > argData /\ id <= Len(heap)
        /\ Cardinality(Built) =
              Cardinality({v \in {"tv", "dv", "pl", "yAp", "result"} :
                 CASE v = "tv" -> timeValues # NilId
                   [] v = "dv" -> dataValues # NilId
                   [] v = "pl" -> pl # NilId
                   [] v = "yAp" -> yAp # NilId
                   [] OTHER -> result # NilId})
        /\ result # NilId =>
              /\ \A k \in 1..Len(heap[result]) :
                    heap[result][k] > argData /\ heap[result][k] \notin Built
              /\ \A k, l \in 1..Len(heap[result]) :
                    k # l => heap[result][k] # heap[result][l]

\* C20: Predict never modifies the Predictor: through any sequence of
\* Predict calls, successful or failing, no step writes an array of Data or
\* changes Data or Params, which stay the values given to NewPredictor
\* (na > 0, nb >= 0, StepSize > 0); the sequences a call builds (extended
\* input axis, forecast series, result pairs) are fresh and share no
\* storage with Data.
C20_PredictorUnmodified ==
    /\ []C20_PredictorKept
    /\ [][(pc # "new") =>
             /\ predictor' = predictor
             /\ argData' = argData /\ argParams' = argParams
             /\ SubSeq(heap', 1, argData) = DataArrays]_vars

\* a second call on a Predictor is about to return its result pairs, all
\* sequences of the call being built, with the Data of the first call
C20_Witness ==
    /\ caller = "Predict" /\ pc = "return" /\ first.called
    /\ numToPredict > 0 /\ Cardinality(Built) = 5
    /\ \E k \in 1..N : HistY[k] # Q(0)

\* the outcome a is the outcome b cut down to the horizon of a: the same
\* error, and the result of b up to originalLength + a.H pairs
PrefixOf(a, b) ==
    /\ a.err = b.err
    /\ (a.result = <<>>) <=> (b.result = <<>>)
    /\ a.result # <<>> =>
          /\ Len(a.result) = N + a.H
          /\ Len(b.result) >= N + a.H
          /\ a.result = SubSeq(b.result, 1, N + a.H)

\* C21: for a fixed Predictor and horizons 0 <= H1 <= H2, the result of
\* Predict(H1) is the first originalLength + H1 pairs of the result of
\* Predict(H2), and both calls return the same error, in whichever order the
\* two calls are made.
C21_HorizonPrefix ==
    (caller = "Predict" /\ ret.called /\ first.called) =>
        /\ ret.H <= first.H => PrefixOf(ret, first)
        /\ first.H <= ret.H => PrefixOf(first, ret)

\* a call with a positive horizon has returned a proper prefix of the
\* result of the first call, forecasts beyond the history among it
C21_Witness ==
    /\ caller = "Predict" /\ ret.called /\ first.called
    /\ 0 < ret.H /\ ret.H < first.H
    /\ ret.result # <<>>
    /\ first.result[N + first.H][2] # Q(0)

\* a call with a larger horizon than the first has returned a result
C21_WitnessLonger ==
    /\ caller = "Predict" /\ ret.called /\ first.called
    /\ first.H < ret.H /\ ret.result # <<>>

\* Predict is past constructPhiMatrix
PhiBuilt ==
    /\ caller # "test"
    /\ pc \in {"phicheck", "theta", "thetacheck", "seed", "loop", "combine", "return"}

\* the loop body at position k (0-based) with every term present
FullSum(k) ==
    RAdd(RSum([j \in 1..na |-> RNeg(RMul(heap[yAp][k - j + 1], th[j][1]))]),
         RSum([c \in 1..(nb + 1) |->
                 RMul(heap[pl][k - (c - 1) + 1], th[na + c][1])]))

\* C22: inside Predict, where m = max(na, nb) and the data-length check has
\* passed, constructPhiMatrix never returns nil and the 'failed to construct
\* phi matrix' error is never returned; every lag-index guard is true
\* (t - j >= 0 for every design entry, i - j >= 0 for every recursion term),
\* so every design entry is a value of the series and every computed
\* position is the sum of all its na + nb + 1 terms.
C22_GuardsAlwaysTrue ==
    /\ (caller # "test" /\ InPredict) => (m = Max(na, nb) /\ N > m)
    /\ ret.called => ret.err # ErrPhi
    /\ PhiBuilt =>
          /\ phi # NilMat
          /\ \A r \in 1..Rows(phi) :
                LET t == r - 1 + m
                IN  /\ \A j \in 1..na :
                          t - j >= 0 /\ phi[r][j] = RNeg(HistY[t - j + 1])
                    /\ \A j \in 0..nb :
                          t - j >= 0 /\ phi[r][na + j + 1] = HistP[t - j + 1]
    /\ (caller # "test" /\ pc \in {"loop", "combine", "return"}) =>
          \A k \in (m + 1)..(i - 1) :
              /\ \A j \in 1..na : k - j >= 0
              /\ \A j \in 0..nb : k - j >= 0
              /\ heap[yAp][k + 1] = FullSum(k)

\* a call on a Predictor with valid parameters is about to return forecasts
\* computed by the recursion from a design matrix of several rows
C22_Witness ==
    /\ caller = "literal" /\ pc = "return" /\ ~InvalidParams
    /\ numToPredict = MaxH /\ Rows(phi) > 1 /\ m > 0
    /\ i > m + 1

\* a design matrix has been built with more input lags than autoregressive
\* lags, the lag window being the number of input lags
C22_WitnessInputLags ==
    /\ caller = "literal" /\ pc = "return" /\ nb > na /\ m = nb

\* k is an index of the sequence s (0-based)
InBounds(k, s) == 0 <= k /\ k < Len(s)

\* C23: for a Predictor built by NewPredictor whose rows are pairs, and any
\* horizon H >= 0, Predict makes no out-of-range access whatever the data
\* length: extendTimeValues is reached only with a non-empty series, the
\* tail slice of calculateTheta starts at len(Y) - rows >= 0, every yAp and
\* pl index the recursion reads or writes lies in [0, L), and every theta
\* index read (up to na + nb) lies within theta's na + nb + 1 rows.
C23_NoOutOfRange ==
    caller = "Predict" =>
        /\ pc = "split" =>
              \A k \in 1..N : Len(heap[heap[predictor[1].Data][k]]) = 2
        /\ pc = "extend" => Len(heap[timeValues]) >= 1
        /\ pc = "phi" =>
              /\ Len(heap[timeValues]) = Len(heap[dataValues])
              /\ \A row \in 0..(Len(heap[dataValues]) - m - 1) :
                    /\ \A j \in 1..na : row + m - j >= 0 =>
                          InBounds(row + m - j, heap[dataValues])
                    /\ \A j \in 0..nb : row + m - j >= 0 =>
                          InBounds(row + m - j, heap[timeValues])
        /\ pc = "theta" =>
              /\ phi # NilMat
              /\ Len(heap[dataValues]) - Rows(phi) >= 0
        /\ pc \in {"seed", "loop"} =>
              /\ th # NilMat
              /\ Rows(th) = na + nb + 1 /\ Cols(th) = 1
        /\ (pc = "loop" /\ i < Len(heap[pl])) =>
              /\ InBounds(i, heap[yAp])
              /\ \A j \in 1..na : i - j >= 0 =>
                    (InBounds(i - j, heap[yAp]) /\ InBounds(j - 1, th))
              /\ \A j \in 0..nb : i - j >= 0 =>
                    (InBounds(i - j, heap[pl]) /\ InBounds(na + j, th))
        /\ pc = "combine" => Len(heap[yAp]) = Len(heap[pl])

\* the recursion is at its last position for the largest horizon, reading
\* its lags and every row of theta
C23_Witness ==
    /\ caller = "Predict" /\ pc = "loop"
    /\ numToPredict = MaxH /\ i = Len(heap[pl]) - 1
    /\ i - na >= 0 /\ Len(heap[yAp]) > N

====
